---- MODULE Spec2Model ----
(***************************************************************************)
(* A model of gabsa/main.py (the command-line orchestrator: init_args,     *)
(* batch_encode, train_gabsa_model, predict_gabsa_model, main) and of      *)
(* gabsa/model.py (get_gabsa_tokenizer_and_model).                         *)
(*                                                                         *)
(* A process is one Python interpreter running main(); its position in the *)
(* code is pc[w], its argparse namespace is args[w]. The filesystem fs is  *)
(* shared by all processes. log[w] is the sequence of externally visible   *)
(* calls the process has made (dataset building, directory creation, file  *)
(* writes, from_pretrained loads, tokenizer calls, generate calls).        *)
(* Texts are sequences of words; a tokenizer maps each word to its id and  *)
(* truncates to max_length.                                                *)
(***************************************************************************)
EXTENDS Integers, Sequences, FiniteSets, TLC

VARIABLES pc, args, dataset, fs, log, err, call, ret

vars == <<pc, args, dataset, fs, log, err, call, ret>>

---------------------------------------------------------------------------
(* Bounds *)

NumWorkers == 2

---------------------------------------------------------------------------
(* model_types: the two architecture families *)

seq2seq == {"t5", "byt5", "mt5", "bart", "mbart"}

lm == {"xglm", "gpt2"}

---------------------------------------------------------------------------
(* Strings, paths, dictionaries *)

None == "None"

\* Python's `w in s` on strings
Contains(w, s) ==
    \E i \in 1..(Len(s) - Len(w) + 1) : SubSeq(s, i, i + Len(w) - 1) = w

\* Python's s.endswith(suf)
EndsWith(s, suf) ==
    /\ Len(s) >= Len(suf)
    /\ SubSeq(s, Len(s) - Len(suf) + 1, Len(s)) = suf

\* os.path.join of two relative components
Join(a, b) == IF a = "" THEN b ELSE a \o "/" \o b

Min(a, b) == IF a < b THEN a ELSE b

\* the events of log: op is the call, path its target, info its payload
Ev(op, path, info) == [op |-> op, path |-> path, info |-> info]

Ops(w) == {log[w][i].op : i \in DOMAIN log[w]}

\* the indices of the events of process w with the given op
At(w, op) == {i \in DOMAIN log[w] : log[w][i].op = op}

---------------------------------------------------------------------------
(* gabsa/model.py *)

from_pretrained(cls, path, kwargs) == [cls |-> cls, path |-> path, kwargs |-> kwargs]

\* a branch of the if/elif chain that loads: the model, then the tokenizer
load_pair_swapped(mcls, tcls, model_name_or_path, model_args, tokenizer_args) ==
    LET model == from_pretrained(mcls, model_name_or_path, tokenizer_args)
        tokenizer == from_pretrained(tcls, model_name_or_path, model_args)
    IN  [raised |-> "",
         loads |-> <<model, tokenizer>>,
         model |-> model,
         tokenizer |-> tokenizer]

load_pair(mcls, tcls, model_name_or_path, model_args, tokenizer_args) ==
    LET model == from_pretrained(mcls, model_name_or_path, model_args)
        tokenizer == from_pretrained(tcls, model_name_or_path, tokenizer_args)
    IN  [raised |-> "",
         loads |-> <<model, tokenizer>>,
         model |-> model,
         tokenizer |-> tokenizer]

\* the else branch falling through to the return with model = tokenizer = None
unknown_type_falls_through ==
    [raised |-> "", loads |-> <<>>, model |-> None, tokenizer |-> None]

\* the else branch: raise NotImplementedError
unknown_type ==
    [raised |-> "NotImplementedError", loads |-> <<>>, model |-> None, tokenizer |-> None]

\* The result: the exception raised ("" for none), the from_pretrained calls
\* made in order, and the returned dictionary (<<>> when nothing is returned).
get_gabsa_tokenizer_and_model(model_type, model_name_or_path, model_args, tokenizer_args) ==
    LET r == IF model_type = "t5" THEN
                 load_pair("T5ForConditionalGeneration", "T5TokenizerFast",
                           model_name_or_path, model_args, tokenizer_args)
             ELSE IF model_type = "byt5" THEN
                 load_pair("T5ForConditionalGeneration", "ByT5Tokenizer",
                           model_name_or_path, model_args, tokenizer_args)
             ELSE IF model_type = "mt5" THEN
                 load_pair("MT5ForConditionalGeneration", "T5TokenizerFast",
                           model_name_or_path, model_args, tokenizer_args)
             ELSE IF model_type = "xglm" THEN
                 load_pair("XGLMForCausalLM", "XGLMTokenizerFast",
                           model_name_or_path, model_args, tokenizer_args)
             ELSE IF model_type = "bart" THEN
                 load_pair("BartForConditionalGeneration", "BartTokenizerFast",
                           model_name_or_path, model_args, tokenizer_args)
             ELSE IF model_type = "mbart" THEN
                 load_pair("MBartForConditionalGeneration", "MBartTokenizerFast",
                           model_name_or_path, model_args, tokenizer_args)
             ELSE IF model_type = "gpt2" THEN
                 load_pair("GPT2LMHeadModel", "GPT2TokenizerFast",
                           model_name_or_path, model_args, tokenizer_args)
             ELSE unknown_type
    IN  [raised |-> r.raised,
         loads  |-> r.loads,
         bundle |-> IF r.raised # "" THEN <<>>
                    ELSE << [model |-> r.model, tokenizer |-> r.tokenizer,
                             type |-> model_type,
                             model_name_or_path |-> model_name_or_path] >>]

\* the events of the loads of a factory call
LoadEvents(r) ==
    [i \in DOMAIN r.loads |->
        Ev(IF i = 1 THEN "load_model" ELSE "load_tokenizer", r.loads[i].path, r.loads[i])]

---------------------------------------------------------------------------
(* Texts, tokenizers, datasets: the collaborators of main.py *)

Vocabulary == <<"food", "good", "bad", "extract", "aspect", ";", "positive", "negative">>

TokenId(word) == CHOOSE i \in DOMAIN Vocabulary : Vocabulary[i] = word

\* tokenizer(text, max_length=n, truncation=True): one id per word, at most n
tokenizer(text, max_length) ==
    [i \in 1..Min(Len(text), max_length) |-> TokenId(text[i])]

\* the text of a list of (aspect, polarity) tuples: the tuples in order,
\* separated by ";"
RECURSIVE stringify_target(_)
stringify_target(target) ==
    IF target = <<>> THEN <<>>
    ELSE IF Len(target) = 1 THEN Head(target)
    ELSE Head(target) \o <<";">> \o stringify_target(Tail(target))

batch_stringify_target(x) == stringify_target(x.target)

\* Prompter: the prompt before the text on side "left", after it on "right"
add_prompt(text, prompt, side) ==
    IF side = "left" THEN prompt \o text ELSE text \o prompt

PromptText == <<"extract", "aspect">>

RawTrain == << [text |-> <<"food", "good">>, target |-> << <<"food", "positive">> >>] >>

RawDev == << [text |-> <<"food", "bad">>, target |-> << <<"food", "negative">> >>] >>

RawTest == << [text |-> <<"good">>, target |-> <<>>] >>

\* build_gabsa_dataset: the three splits, each example with its input
\* (the text, with the prompt attached when a prompter is given)
build_gabsa_dataset(prompter) ==
    LET example(raw) ==
            [text   |-> raw.text,
             input  |-> IF prompter = <<>> THEN raw.text
                        ELSE add_prompt(raw.text, PromptText, prompter[1].side),
             target |-> raw.target]
        split(raws) == [i \in DOMAIN raws |-> example(raws[i])]
    IN  [train |-> split(RawTrain), dev |-> split(RawDev), test |-> split(RawTest)]

NoDataset == [train |-> <<>>, dev |-> <<>>, test |-> <<>>]

---------------------------------------------------------------------------
(* gabsa/main.py: batch_encode *)

\* the final else replaced by the seq2seq branch
batch_encode_else_seq2seq(x, a) ==
    LET text_target == batch_stringify_target(x)
    IN  IF a.model_type \in lm THEN
            [raised |-> "",
             enc |-> << [input_ids |-> tokenizer(x.input \o text_target, a.max_len),
                         labels |-> <<>>] >>]
        ELSE
            [raised |-> "",
             enc |-> << [input_ids |-> tokenizer(x.input, a.max_len),
                         labels |-> tokenizer(text_target, a.max_len)] >>]

\* The result: the exception raised ("" for none) and the encoding returned
\* (<<>> when nothing is returned).
batch_encode(x, a) ==
    LET text_target == batch_stringify_target(x)
    IN  IF a.model_type \in lm THEN
            [raised |-> "",
             enc |-> << [input_ids |-> tokenizer(x.input \o text_target, a.max_len),
                         labels |-> <<>>] >>]
        ELSE IF a.model_type \in seq2seq THEN
            [raised |-> "",
             enc |-> << [input_ids |-> tokenizer(x.input, a.max_len),
                         labels |-> tokenizer(text_target, a.max_len)] >>]
        ELSE
            [raised |-> "NotImplementedError", enc |-> <<>>]

\* dataset.map(batch_encode): the encodings of a split in order, up to the
\* first example whose encoding raises
map_batch_encode(split, a) ==
    LET res == [i \in DOMAIN split |-> batch_encode(split[i], a)]
        bad == {i \in DOMAIN split : res[i].raised # ""}
    IN  IF bad = {} THEN
            [raised |-> "", encs |-> [i \in DOMAIN split |-> res[i].enc[1]]]
        ELSE
            [raised |-> res[CHOOSE i \in bad : \A j \in bad : i <= j].raised,
             encs |-> <<>>]

---------------------------------------------------------------------------
(* State changes shared by the actions *)

Goto(w, p) == pc' = [pc EXCEPT ![w] = p]

Raise(w, e) ==
    /\ pc' = [pc EXCEPT ![w] = "raised"]
    /\ err' = [err EXCEPT ![w] = e]

Emit(w, events) == log' = [log EXCEPT ![w] = @ \o events]

---------------------------------------------------------------------------
(* gabsa/main.py: init_args *)

\* the side derived from the family the other way round
prompt_side_lm_left(model_type) == IF model_type \in lm THEN "left" ELSE "right"

\* args.prompt_side
prompt_side(model_type) == IF model_type \in seq2seq THEN "left" ELSE "right"

\* init_args after parse_args: int(args.prompt_option) raises (the namespace
\* has no prompt_option) and the except passes; prompt_side is derived; a
\* pattern file, when given, is opened and parsed into a Pattern.
InitArgs(w) ==
    /\ pc[w] = "init_args"
    /\ LET a == [args[w] EXCEPT !.prompt_side = prompt_side(args[w].model_type)]
       IN  IF a.pattern # None /\ a.pattern \notin fs THEN
               /\ args' = [args EXCEPT ![w] = a]
               /\ Raise(w, "FileNotFoundError")
           ELSE
               /\ args' = [args EXCEPT ![w] =
                              [a EXCEPT !.pattern = IF a.pattern # None THEN "Pattern" ELSE None]]
               /\ Goto(w, "main_check")
               /\ err' = err
    /\ UNCHANGED <<dataset, fs, log, call, ret>>

---------------------------------------------------------------------------
(* gabsa/main.py: main *)

\* the test with the negation of do_predict lost
no_phase_requested_wrong(a) == ~a.do_train /\ ~a.do_eval /\ a.do_predict

no_phase_requested(a) == ~a.do_train /\ ~a.do_eval /\ ~a.do_predict

\* main, the early return when no phase is requested
CheckPhases(w) ==
    /\ pc[w] = "main_check"
    /\ IF no_phase_requested(args[w]) THEN Goto(w, "returned") ELSE Goto(w, "build")
    /\ UNCHANGED <<args, dataset, fs, log, err, call, ret>>

\* main, the data paths, the Prompter and build_gabsa_dataset
BuildDataset(w) ==
    /\ pc[w] = "build"
    /\ LET a == args[w]
           prompter == IF a.prompt_path # None
                       THEN << [path |-> a.prompt_path, side |-> a.prompt_side] >>
                       ELSE <<>>
       IN  /\ dataset' = [dataset EXCEPT ![w] = build_gabsa_dataset(prompter)]
           /\ Emit(w, [i \in DOMAIN prompter |->
                          Ev("Prompter", prompter[i].path, prompter[i].side)]
                      \o << Ev("build_gabsa_dataset", a.data_dir, a.task) >>)
    /\ Goto(w, "outdir")
    /\ UNCHANGED <<args, fs, err, call, ret>>

available_size == <<"small", "large", "base">>

\* the loop of main over available_size from index i on, without a break
RECURSIVE size_loop(_, _, _)
size_loop(path, i, model_size) ==
    IF i > Len(available_size) THEN model_size
    ELSE size_loop(path, i + 1,
                   IF Contains(available_size[i], path) THEN available_size[i]
                   ELSE model_size)

\* the same loop leaving at the first size found
RECURSIVE size_loop_break(_, _, _)
size_loop_break(path, i, model_size) ==
    IF i > Len(available_size) THEN model_size
    ELSE IF Contains(available_size[i], path) THEN available_size[i]
    ELSE size_loop_break(path, i + 1, model_size)

model_size_first(path) == size_loop_break(path, 1, "nosize")

model_size_of(path) == size_loop(path, 1, "nosize")

\* the output directory of a run
output_dir_of(a) ==
    Join(Join(a.output_dir, a.model_type),
         a.model_type \o "_pabsa_S" \o ToString(a.max_len) \o "_"
             \o model_size_of(a.model_name_or_path))

\* os.makedirs(path): the directory and every missing ancestor below base
makedirs(a, output_dir) ==
    {a.output_dir, Join(a.output_dir, a.model_type), output_dir, Join(output_dir, "data")}

\* main, "Prepare output dir"
PrepareOutputDir(w) ==
    /\ pc[w] = "outdir"
    /\ LET a == args[w]
           output_dir == output_dir_of(a)
       IN  /\ IF output_dir \notin fs THEN
                  /\ fs' = fs \cup makedirs(a, output_dir)
                  /\ Emit(w, << Ev("makedirs", Join(output_dir, "data"), "") >>)
              ELSE
                  /\ fs' = fs
                  /\ log' = log
           /\ args' = [args EXCEPT ![w].output_dir = output_dir]
    /\ Goto(w, "write_train")
    /\ UNCHANGED <<dataset, err, call, ret>>

Splits == <<"train", "dev", "test">>

\* where main goes after the three to_csv calls, and after training
after_csv(a) ==
    IF a.do_train THEN "train_setup"
    ELSE IF a.do_predict THEN "predict_load" ELSE "returned"

after_train(a) == IF a.do_predict THEN "predict_load" ELSE "returned"

\* main, dataset[split].to_csv(output_dir/data/split.csv): pandas raises
\* OSError when the directory of the file does not exist
WriteSplit(w, i) ==
    /\ pc[w] = "write_" \o Splits[i]
    /\ LET dir == Join(args[w].output_dir, "data")
           file == Join(dir, Splits[i] \o ".csv")
       IN  IF dir \notin fs THEN
               /\ Raise(w, "OSError")
               /\ UNCHANGED <<fs, log>>
           ELSE
               /\ fs' = fs \cup {file}
               /\ Emit(w, << Ev("write", file, Splits[i]) >>)
               /\ Goto(w, IF i < Len(Splits) THEN "write_" \o Splits[i + 1]
                          ELSE after_csv(args[w]))
               /\ err' = err
    /\ UNCHANGED <<args, dataset, call, ret>>

---------------------------------------------------------------------------
(* gabsa/main.py: train_gabsa_model *)

padding_side(model_type) == IF model_type \in lm THEN "left" ELSE "right"

EncodeEvents(split, encs) == [i \in DOMAIN encs |-> Ev("encode", split, encs[i])]

\* train_gabsa_model up to the construction of the trainer: the bundle, the
\* training arguments file, the data collator, the encoding of the train
\* split and, when evaluating, of the dev split
TrainSetup(w) ==
    /\ pc[w] = "train_setup"
    /\ LET a == args[w]
           tokenizer_args == {<<"padding_side", padding_side(a.model_type)>>}
           model_args == {}
           mt == get_gabsa_tokenizer_and_model(a.model_type, a.model_name_or_path,
                                               model_args, tokenizer_args)
           a1 == [a EXCEPT !.train_args = IF EndsWith(@, ".json") THEN @ ELSE @ \o ".json"]
           train == map_batch_encode(dataset[w].train, a1)
           dev == map_batch_encode(dataset[w].dev, a1)
       IN  IF mt.raised # "" THEN
               /\ Raise(w, mt.raised)
               /\ Emit(w, LoadEvents(mt))
               /\ args' = args
           ELSE IF a1.train_args \notin fs THEN
               /\ Raise(w, "FileNotFoundError")
               /\ Emit(w, LoadEvents(mt))
               /\ args' = [args EXCEPT ![w] = a1]
           ELSE IF a.model_type \notin seq2seq /\ a.model_type \notin lm THEN
               /\ Raise(w, "ValueError")
               /\ Emit(w, LoadEvents(mt))
               /\ args' = [args EXCEPT ![w] = a1]
           ELSE IF train.raised # "" THEN
               /\ Raise(w, train.raised)
               /\ Emit(w, LoadEvents(mt))
               /\ args' = [args EXCEPT ![w] = a1]
           ELSE IF a.do_eval /\ dev.raised # "" THEN
               /\ Raise(w, dev.raised)
               /\ Emit(w, LoadEvents(mt) \o EncodeEvents("train", train.encs))
               /\ args' = [args EXCEPT ![w] = a1]
           ELSE
               /\ Goto(w, "train")
               /\ Emit(w, LoadEvents(mt) \o EncodeEvents("train", train.encs)
                          \o (IF a.do_eval THEN EncodeEvents("dev", dev.encs) ELSE <<>>))
               /\ args' = [args EXCEPT ![w] = a1]
               /\ err' = err
    /\ UNCHANGED <<dataset, fs, call, ret>>

\* trainer.train(): it returns, the evaluation callback having written its
\* log when evaluating, or it aborts (out of memory, line 28)
TrainRun(w) ==
    /\ pc[w] = "train"
    /\ \/ /\ Goto(w, "save_tok")
          /\ Emit(w, << Ev("train", args[w].output_dir, "returned") >>)
          /\ fs' = IF args[w].do_eval
                   THEN fs \cup {Join(args[w].output_dir, "eval_metrics.csv")}
                   ELSE fs
          /\ err' = err
       \/ /\ Raise(w, "RuntimeError")
          /\ UNCHANGED <<fs, log>>
    /\ UNCHANGED <<args, dataset, call, ret>>

\* trainer.is_world_process_zero(): the process of global rank 0
is_world_process_zero(w) == w = 0

\* the tokenizer saved by every process
SaveTokenizerUnguarded(w) ==
    /\ pc[w] = "save_tok"
    /\ Emit(w, << Ev("save_tokenizer", args[w].output_dir, "") >>)
    /\ fs' = fs \cup {Join(args[w].output_dir, "tokenizer.json")}
    /\ Goto(w, "save_model")
    /\ UNCHANGED <<args, dataset, err, call, ret>>

\* the tokenizer saved on the primary process only
SaveTokenizer(w) ==
    /\ pc[w] = "save_tok"
    /\ IF is_world_process_zero(w) THEN
           /\ Emit(w, << Ev("save_tokenizer", args[w].output_dir, "") >>)
           /\ fs' = fs \cup {Join(args[w].output_dir, "tokenizer.json")}
       ELSE
           UNCHANGED <<fs, log>>
    /\ Goto(w, "save_model")
    /\ UNCHANGED <<args, dataset, err, call, ret>>

\* model.save_pretrained(save_directory=args.output_dir)
SaveModel(w) ==
    /\ pc[w] = "save_model"
    /\ Emit(w, << Ev("save_model", args[w].output_dir, "") >>)
    /\ fs' = fs \cup {Join(args[w].output_dir, "model.bin")}
    /\ Goto(w, "save_args")
    /\ UNCHANGED <<args, dataset, err, call, ret>>

\* json.dump(vars(args), open(output_dir/arguments.json, 'w')): open creates
\* the file; with a Pattern in the namespace the dump succeeds or raises
\* TypeError, as the Pattern class is JSON serializable or not
SaveArgs(w) ==
    /\ pc[w] = "save_args"
    /\ fs' = fs \cup {Join(args[w].output_dir, "arguments.json")}
    /\ \/ /\ Emit(w, << Ev("save_args", Join(args[w].output_dir, "arguments.json"), args[w]) >>)
          /\ Goto(w, "repoint")
          /\ err' = err
       \/ /\ args[w].pattern # None
          /\ Raise(w, "TypeError")
          /\ log' = log
    /\ UNCHANGED <<args, dataset, call, ret>>

\* the return of train_gabsa_model without the assignment
RepointSkipped(w) ==
    /\ pc[w] = "repoint"
    /\ Goto(w, after_train(args[w]))
    /\ UNCHANGED <<args, dataset, fs, log, err, call, ret>>

\* args.model_name_or_path = args.output_dir, and the return to main
Repoint(w) ==
    /\ pc[w] = "repoint"
    /\ args' = [args EXCEPT ![w].model_name_or_path = args[w].output_dir]
    /\ Goto(w, after_train(args[w]))
    /\ UNCHANGED <<dataset, fs, log, err, call, ret>>

---------------------------------------------------------------------------
(* gabsa/main.py: predict_gabsa_model *)

\* the bundle of the prediction phase
PredictLoad(w) ==
    /\ pc[w] = "predict_load"
    /\ LET a == args[w]
           tokenizer_args == {<<"padding_side", padding_side(a.model_type)>>}
           model_args == {}
           mt == get_gabsa_tokenizer_and_model(a.model_type, a.model_name_or_path,
                                               model_args, tokenizer_args)
       IN  /\ Emit(w, LoadEvents(mt))
           /\ IF mt.raised # "" THEN Raise(w, mt.raised)
              ELSE Goto(w, "predict_encode") /\ err' = err
    /\ UNCHANGED <<args, dataset, fs, call, ret>>

\* "Tokenize the input": test_dataset.map(batch_encode). The call passes
\* the keyword removed_columns (line 234): the dataset's map accepts it, or
\* raises TypeError.
PredictEncode(w) ==
    /\ pc[w] = "predict_encode"
    /\ \/ LET test == map_batch_encode(dataset[w].test, args[w])
          IN  IF test.raised # "" THEN
                  Raise(w, test.raised) /\ log' = log
              ELSE
                  /\ Emit(w, EncodeEvents("test", test.encs))
                  /\ Goto(w, "predict_generate")
                  /\ err' = err
       \/ /\ Raise(w, "TypeError")
          /\ log' = log
    /\ UNCHANGED <<args, dataset, fs, call, ret>>

IsTestEncoding(e) == e.op = "encode" /\ e.path = "test"

\* "Predict": tokenized_test.to(device), which the dataset supports or which
\* raises AttributeError, then model.generate on the tokenized test split,
\* in order
PredictGenerate(w) ==
    /\ pc[w] = "predict_generate"
    /\ \/ /\ LET tokenized_test == SelectSeq(log[w], IsTestEncoding)
             IN  Emit(w, [i \in DOMAIN tokenized_test |->
                             Ev("generate", "test", tokenized_test[i].info.input_ids)])
          /\ Goto(w, "predict_write")
          /\ err' = err
       \/ /\ Raise(w, "AttributeError")
          /\ log' = log
    /\ UNCHANGED <<args, dataset, fs, call, ret>>

\* the decoding, the inverse stringification with dataset["task"] (present,
\* or KeyError), the scoring, prediction.csv and prediction_metrics.json
PredictWrite(w) ==
    /\ pc[w] = "predict_write"
    /\ \/ /\ LET csv == Join(args[w].output_dir, "prediction.csv")
                 json == Join(args[w].output_dir, "prediction_metrics.json")
             IN  /\ Emit(w, << Ev("write", csv, "prediction"), Ev("write", json, "metrics") >>)
                 /\ fs' = fs \cup {csv, json}
          /\ Goto(w, "returned")
          /\ err' = err
       \/ /\ Raise(w, "KeyError")
          /\ UNCHANGED <<fs, log>>
    /\ UNCHANGED <<args, dataset, call, ret>>

---------------------------------------------------------------------------
(* Direct calls of the two functions other modules import *)

CallFactory ==
    /\ pc[0] = "call"
    /\ call.fn = "get_gabsa_tokenizer_and_model"
    /\ ret' = get_gabsa_tokenizer_and_model(call.model_type, call.model_name_or_path,
                                            call.model_args, call.tokenizer_args)
    /\ Goto(0, "called")
    /\ UNCHANGED <<args, dataset, fs, log, err, call>>

CallBatchEncode ==
    /\ pc[0] = "call"
    /\ call.fn = "batch_encode"
    /\ ret' = batch_encode(call.x, call.args)
    /\ Goto(0, "called")
    /\ UNCHANGED <<args, dataset, fs, log, err, call>>

---------------------------------------------------------------------------
(* Inputs *)

Registry == {"t5", "byt5", "mt5", "xglm", "bart", "mbart", "gpt2"}

ModelTypes == Registry \cup {"llama"}

Checkpoints == {"indo-gpt2", "t5-base", "mt5-small", "bart-large-small", "t5-small-base"}

MaxLens == {64, 128}

\* the sequence-length caps of the runs that look at the encodings
ShortMaxLens == {2, 128}

PatternFiles == {None, "pattern.json", "missing.json"}

PromptFiles == {None, "prompt.txt"}

InputFiles == {"pattern.json", "prompt.txt", "cfg/train_args.json"}

Targets == {<<>>, << <<"food", "positive">> >>, << <<"food", "negative">>, <<"food", "positive">> >>}

Texts == {<<"good">>, <<"food", "bad">>}

\* the namespace parse_args returns
ParsedArgs(do_train, do_eval, do_predict, model_type, model_name_or_path, max_len, pattern, prompt_path) ==
    [do_train |-> do_train, do_eval |-> do_eval, do_predict |-> do_predict,
     train_args |-> "cfg/train_args",
     model_type |-> model_type, model_name_or_path |-> model_name_or_path,
     max_len |-> max_len,
     task |-> "pabsa", paradigm |-> "extraction",
     prompt_path |-> prompt_path, pattern |-> pattern,
     data_dir |-> "data", output_dir |-> "out",
     prompt_side |-> None]

\* the three states of the output directory before the run
FsStates(a) ==
    LET output_dir == output_dir_of(a)
    IN  { InputFiles,
          InputFiles \cup makedirs(a, output_dir),
          InputFiles \cup (makedirs(a, output_dir) \ {Join(output_dir, "data")}) }

\* the invocation of the script with the command line parsed to a
MainCall(a) == [fn |-> "main", args |-> a]

NoRet == <<>>

\* one process at the entry of main
InitMain ==
    /\ \E do_train \in BOOLEAN, do_eval \in BOOLEAN, do_predict \in BOOLEAN,
          model_type \in ModelTypes, model_name_or_path \in Checkpoints,
          max_len \in MaxLens, pattern \in PatternFiles, prompt_path \in PromptFiles :
          LET a == ParsedArgs(do_train, do_eval, do_predict, model_type,
                              model_name_or_path, max_len, pattern, prompt_path)
          IN  /\ args = [w \in {0} |-> a]
              /\ fs \in FsStates(a)
              /\ call = MainCall(a)
    /\ pc = [w \in {0} |-> "init_args"]
    /\ dataset = [w \in {0} |-> NoDataset]
    /\ log = [w \in {0} |-> <<>>]
    /\ err = [w \in {0} |-> ""]
    /\ ret = NoRet

FactoryCalls ==
    [fn : {"get_gabsa_tokenizer_and_model"},
     model_type : ModelTypes,
     model_name_or_path : {"t5-base", "out/t5/t5_pabsa_S128_base"},
     model_args : {{}, {<<"torch_dtype", "float16">>}},
     tokenizer_args : {{}, {<<"padding_side", "left">>}, {<<"padding_side", "right">>}}]

EncodeCalls ==
    [fn : {"batch_encode"},
     x : [text : Texts, input : Texts, target : Targets],
     args : [model_type : ModelTypes, max_len : ShortMaxLens]]

\* one direct call of get_gabsa_tokenizer_and_model or of batch_encode
InitCall ==
    /\ call \in FactoryCalls \cup EncodeCalls
    /\ ret = NoRet
    /\ pc = [w \in {0} |-> "call"]
    /\ args = [w \in {0} |-> ParsedArgs(FALSE, FALSE, FALSE, None, None, 128, None, None)]
    /\ dataset = [w \in {0} |-> NoDataset]
    /\ fs = InputFiles
    /\ log = [w \in {0} |-> <<>>]
    /\ err = [w \in {0} |-> ""]

Init == InitMain \/ InitCall

\* a single process runs main; it is process 0
Next ==
    \/ InitArgs(0)
    \/ CheckPhases(0)
    \/ BuildDataset(0)
    \/ PrepareOutputDir(0)
    \/ \E i \in DOMAIN Splits : WriteSplit(0, i)
    \/ TrainSetup(0)
    \/ TrainRun(0)
    \/ SaveTokenizer(0)
    \/ SaveModel(0)
    \/ SaveArgs(0)
    \/ Repoint(0)
    \/ PredictLoad(0)
    \/ PredictEncode(0)
    \/ PredictGenerate(0)
    \/ PredictWrite(0)
    \/ CallFactory
    \/ CallBatchEncode

Spec == Init /\ [][Next]_vars

---------------------------------------------------------------------------
(* Runs observed from the entry of a phase *)

\* the state main has reached after the three to_csv calls, for the command
\* line a0, the dataset ds and an output directory that already existed
AfterCsv(a0, ds) ==
    LET a == [a0 EXCEPT !.prompt_side = prompt_side(a0.model_type),
                        !.output_dir = output_dir_of(a0)]
        data == Join(a.output_dir, "data")
        csv(i) == Join(data, Splits[i] \o ".csv")
    IN  [args |-> a,
         dataset |-> ds,
         fs |-> InputFiles \cup makedirs(a0, a.output_dir) \cup {csv(i) : i \in DOMAIN Splits},
         log |-> << Ev("build_gabsa_dataset", a.data_dir, a.task) >>
                 \o [i \in DOMAIN Splits |-> Ev("write", csv(i), Splits[i])]]

Workers == 0..(NumWorkers - 1)

\* NumWorkers processes of one distributed launch, each at the entry of
\* train_gabsa_model
InitWorkers ==
    /\ \E do_eval \in BOOLEAN, do_predict \in BOOLEAN, model_type \in ModelTypes,
          model_name_or_path \in {"t5-base", "indo-gpt2"} :
          LET a0 == ParsedArgs(TRUE, do_eval, do_predict, model_type,
                               model_name_or_path, 128, None, None)
              s == AfterCsv(a0, build_gabsa_dataset(<<>>))
          IN  /\ call = MainCall(a0)
              /\ args = [w \in Workers |-> s.args]
              /\ dataset = [w \in Workers |-> s.dataset]
              /\ fs = s.fs
              /\ log = [w \in Workers |-> s.log]
    /\ pc = [w \in Workers |-> "train_setup"]
    /\ err = [w \in Workers |-> ""]
    /\ ret = NoRet

NextWorkers ==
    \E w \in Workers :
        \/ TrainSetup(w)
        \/ TrainRun(w)
        \/ SaveTokenizer(w)
        \/ SaveModel(w)
        \/ SaveArgs(w)
        \/ Repoint(w)

SpecWorkers == InitWorkers /\ [][NextWorkers]_vars

\* a test split of one example
TestOnly(text, target) ==
    [train |-> <<>>, dev |-> <<>>,
     test |-> << [text |-> text, input |-> text, target |-> target] >>]

\* Two separate runs of the script with --do_predict, each at the entry of
\* predict_gabsa_model: the same command line and the same test texts, any
\* gold targets in each.
InitTwoRuns ==
    /\ \E model_type \in ModelTypes, max_len \in ShortMaxLens, text \in Texts,
          target0 \in Targets, target1 \in Targets :
          LET a0 == ParsedArgs(FALSE, FALSE, TRUE, model_type, "t5-base",
                               max_len, None, None)
              s0 == AfterCsv(a0, TestOnly(text, target0))
              s1 == AfterCsv(a0, TestOnly(text, target1))
          IN  /\ call = MainCall(a0)
              /\ args = [w \in {0, 1} |-> s0.args]
              /\ dataset = [w \in {0, 1} |-> IF w = 0 THEN s0.dataset ELSE s1.dataset]
              /\ fs = s0.fs
              /\ log = [w \in {0, 1} |-> s0.log]
    /\ pc = [w \in {0, 1} |-> "predict_load"]
    /\ err = [w \in {0, 1} |-> ""]
    /\ ret = NoRet

NextTwoRuns ==
    \E w \in {0, 1} :
        \/ PredictLoad(w)
        \/ PredictEncode(w)
        \/ PredictGenerate(w)
        \/ PredictWrite(w)

SpecTwoRuns == InitTwoRuns /\ [][NextTwoRuns]_vars

---------------------------------------------------------------------------
(* Properties *)

\* C1 as stated: once init_args has derived it, the prompt side of a run
\* with a known model type is "left" exactly for xglm and gpt2 and "right"
\* for t5, byt5, mt5, bart and mbart.
C1_SideLeftForCausalLM ==
    \A w \in DOMAIN pc :
        (call.fn = "main" /\ args[w].prompt_side # None) =>
            /\ args[w].model_type \in {"xglm", "gpt2"} => args[w].prompt_side = "left"
            /\ args[w].model_type \in {"t5", "byt5", "mt5", "bart", "mbart"}
                   => args[w].prompt_side = "right"

\* C1 amended: the prompt side derived by init_args is "left" exactly for
\* t5, byt5, mt5, bart and mbart and "right" for xglm and gpt2, and it is
\* the side main hands to the Prompter.
C1_SideLeftForSeq2Seq ==
    \A w \in DOMAIN pc :
        (call.fn = "main" /\ args[w].prompt_side # None) =>
            /\ args[w].model_type \in {"t5", "byt5", "mt5", "bart", "mbart"}
                   => args[w].prompt_side = "left"
            /\ args[w].model_type \in {"xglm", "gpt2"} => args[w].prompt_side = "right"
            /\ \A i \in At(w, "Prompter") : log[w][i].info = args[w].prompt_side

\* a gpt2 run has built its Prompter with the side "right"
C1_Witness ==
    /\ call.fn = "main"
    /\ args[0].model_type = "gpt2"
    /\ \E i \in At(0, "Prompter") : log[0][i].info = "right"

\* C2 as stated: the output directory main computes is
\* {output_dir}/{model_type}/{model_type}_pabsa_S{max_len}_{tag} with tag the
\* first of small, large, base that occurs in the checkpoint path, nosize when
\* none does.
C2_FirstSizeFound ==
    \A w \in DOMAIN pc :
        (call.fn = "main" /\ pc[w] = "write_train") =>
            LET path == call.args.model_name_or_path
                tag == IF Contains("small", path) THEN "small"
                       ELSE IF Contains("large", path) THEN "large"
                       ELSE IF Contains("base", path) THEN "base"
                       ELSE "nosize"
            IN  args[w].output_dir =
                    call.args.output_dir \o "/" \o call.args.model_type \o "/"
                    \o call.args.model_type \o "_pabsa_S" \o ToString(call.args.max_len)
                    \o "_" \o tag

\* C2 amended: the same directory with tag the last of small, large, base (in
\* that order) that occurs in the checkpoint path, nosize when none does.
C2_LastSizeFound ==
    \A w \in DOMAIN pc :
        (call.fn = "main" /\ pc[w] = "write_train") =>
            LET path == call.args.model_name_or_path
                tag == IF Contains("base", path) THEN "base"
                       ELSE IF Contains("large", path) THEN "large"
                       ELSE IF Contains("small", path) THEN "small"
                       ELSE "nosize"
            IN  args[w].output_dir =
                    call.args.output_dir \o "/" \o call.args.model_type \o "/"
                    \o call.args.model_type \o "_pabsa_S" \o ToString(call.args.max_len)
                    \o "_" \o tag

\* a checkpoint path with two size words has had its directory computed
C2_Witness ==
    /\ call.fn = "main"
    /\ pc[0] = "write_train"
    /\ call.args.model_name_or_path = "t5-small-base"
    /\ call.args.model_type = "t5"
    /\ call.args.max_len = 128
    /\ args[0].output_dir = "out/t5/t5_pabsa_S128_base"

\* C3: a call of get_gabsa_tokenizer_and_model with a model type outside the
\* seven known ones raises NotImplementedError, calls no from_pretrained and
\* returns nothing.
C3_UnknownTypeRaises ==
    (pc[0] = "called" /\ call.fn = "get_gabsa_tokenizer_and_model"
        /\ call.model_type \notin {"t5", "byt5", "mt5", "xglm", "bart", "mbart", "gpt2"}) =>
        /\ ret.raised = "NotImplementedError"
        /\ ret.loads = <<>>
        /\ ret.bundle = <<>>

\* the factory has been called with "llama"
C3_Witness ==
    /\ pc[0] = "called"
    /\ call.fn = "get_gabsa_tokenizer_and_model"
    /\ call.model_type = "llama"
    /\ ret.raised = "NotImplementedError"

\* the effects C4 is about: dataset building, directory creation, file writes
NoEffects(w) == Ops(w) \cap {"build_gabsa_dataset", "Prompter", "makedirs", "write"} = {}

NoPhase == ~call.args.do_train /\ ~call.args.do_eval /\ ~call.args.do_predict

\* C4 as stated: with none of the three phases requested main has no effect
\* and does not fail, whatever the other options are.
C4_NoPhaseReturns ==
    \A w \in DOMAIN pc :
        (call.fn = "main" /\ NoPhase) =>
            /\ NoEffects(w)
            /\ pc[w] \in {"init_args", "main_check", "returned"}

\* C4 amended: with none of the three phases requested main builds no
\* dataset, creates no directory and writes no file, whatever the other
\* options are; it returns without error unless a pattern file is given and
\* cannot be opened, in which case init_args fails before main's test.
C4_NoPhaseNoEffect ==
    /\ [](\A w \in DOMAIN pc :
            (call.fn = "main" /\ NoPhase) =>
                /\ NoEffects(w)
                /\ \/ pc[w] \in {"init_args", "main_check", "returned"}
                   \/ /\ pc[w] = "raised"
                      /\ err[w] = "FileNotFoundError"
                      /\ call.args.pattern \notin {None} \cup InputFiles)
    /\ [][(call.fn = "main" /\ NoPhase) => fs' = fs]_vars

\* a run with no phase, a pattern file and a prompt file has returned
C4_Witness ==
    /\ call.fn = "main"
    /\ NoPhase
    /\ call.args.pattern = "pattern.json"
    /\ call.args.prompt_path = "prompt.txt"
    /\ pc[0] = "returned"
    /\ log[0] = <<>>

\* C5 as stated: when a phase is requested, the output directory and its
\* "data" subdirectory exist when main is about to write train.csv, whatever
\* the filesystem was, and the run does not fail on the three writes.
C5_DataDirExists ==
    \A w \in DOMAIN pc :
        (call.fn = "main" /\ ~NoPhase) =>
            /\ pc[w] \in {"write_train", "write_dev", "write_test"} =>
                   {args[w].output_dir, Join(args[w].output_dir, "data")} \subseteq fs
            /\ err[w] # "OSError"


InPredict(w) ==
    pc[w] \in {"predict_load", "predict_encode", "predict_generate", "predict_write"}

\* the last event of process w with the given op
Last(w, op) == log[w][CHOOSE i \in At(w, op) : \A j \in At(w, op) : j <= i]

\* C6: prediction after training starts only once trainer.train() has
\* returned and the model and arguments are saved, and loads model and
\* tokenizer from the run's output directory; prediction without training
\* loads them from the checkpoint path of the command line; after a training
\* that raised, prediction is not started.
C6_PredictionChainsOnTraining ==
    \A w \in DOMAIN pc :
        call.fn = "main" =>
            /\ (InPredict(w) /\ call.args.do_train) =>
                   /\ \E t \in At(w, "train"), m \in At(w, "save_model"),
                         a \in At(w, "save_args") : t < m /\ m < a
                   /\ Join(args[w].output_dir, "model.bin") \in fs
                   /\ args[w].model_name_or_path = args[w].output_dir
            /\ pc[w] \in {"predict_encode", "predict_generate", "predict_write"} =>
                   LET from == IF call.args.do_train THEN args[w].output_dir
                               ELSE call.args.model_name_or_path
                   IN  /\ Last(w, "load_model").path = from
                       /\ Last(w, "load_tokenizer").path = from
                       /\ call.args.do_train =>
                              \A m \in At(w, "save_model") :
                                  \E l \in At(w, "load_model") :
                                      m < l /\ log[w][l].path = from
            /\ (call.args.do_train /\ At(w, "save_args") = {}) =>
                   /\ ~InPredict(w)
                   /\ At(w, "generate") = {}
                   /\ Cardinality(At(w, "load_model")) <= 1

\* a run with training and prediction has loaded the trained model from its
\* output directory
C6_Witness ==
    /\ call.fn = "main"
    /\ call.args.do_train /\ call.args.do_predict
    /\ pc[0] = "predict_encode"
    /\ Cardinality(At(0, "load_model")) = 2
    /\ Last(0, "load_model").path = output_dir_of(call.args)
    /\ Last(0, "load_model").path # call.args.model_name_or_path

\* C7: a call of get_gabsa_tokenizer_and_model with one of the seven known
\* types loads one model and one tokenizer of the classes of the registry,
\* both from the given checkpoint, the model with model_args and the
\* tokenizer with tokenizer_args, and returns them with the type and the
\* checkpoint it was given.
C7_RegistryLoads ==
    LET classes ==
            [t \in {"t5", "byt5", "mt5", "xglm", "bart", "mbart", "gpt2"} |->
                CASE t = "t5"    -> <<"T5ForConditionalGeneration", "T5TokenizerFast">>
                  [] t = "byt5"  -> <<"T5ForConditionalGeneration", "ByT5Tokenizer">>
                  [] t = "mt5"   -> <<"MT5ForConditionalGeneration", "T5TokenizerFast">>
                  [] t = "xglm"  -> <<"XGLMForCausalLM", "XGLMTokenizerFast">>
                  [] t = "bart"  -> <<"BartForConditionalGeneration", "BartTokenizerFast">>
                  [] t = "mbart" -> <<"MBartForConditionalGeneration", "MBartTokenizerFast">>
                  [] t = "gpt2"  -> <<"GPT2LMHeadModel", "GPT2TokenizerFast">>]
    IN  (pc[0] = "called" /\ call.fn = "get_gabsa_tokenizer_and_model"
            /\ call.model_type \in DOMAIN classes) =>
            /\ ret.raised = ""
            /\ ret.loads =
                   << [cls |-> classes[call.model_type][1],
                       path |-> call.model_name_or_path, kwargs |-> call.model_args],
                      [cls |-> classes[call.model_type][2],
                       path |-> call.model_name_or_path, kwargs |-> call.tokenizer_args] >>
            /\ ret.bundle =
                   << [model |-> ret.loads[1], tokenizer |-> ret.loads[2],
                       type |-> call.model_type,
                       model_name_or_path |-> call.model_name_or_path] >>

\* the factory has been called for byt5 with different model and tokenizer
\* arguments
C7_Witness ==
    /\ pc[0] = "called"
    /\ call.fn = "get_gabsa_tokenizer_and_model"
    /\ call.model_type = "byt5"
    /\ call.model_args # call.tokenizer_args
    /\ call.model_args # {}
    /\ Len(ret.bundle) = 1
    /\ ret.bundle[1].tokenizer.cls = "ByT5Tokenizer"

\* C8: a training run with a model type in neither family raises
\* NotImplementedError or ValueError in train_gabsa_model with no model or
\* tokenizer loaded and no split encoded; a call of batch_encode with such a
\* type raises NotImplementedError and returns no encoding.
C8_UnknownTypeFailsEarly ==
    LET known == {"t5", "byt5", "mt5", "bart", "mbart"} \cup {"xglm", "gpt2"}
    IN  /\ \A w \in DOMAIN pc :
            (call.fn = "main" /\ call.args.model_type \notin known) =>
                /\ Ops(w) \cap {"load_model", "load_tokenizer", "encode", "train"} = {}
                /\ pc[w] \notin {"train", "save_tok", "save_model", "save_args", "repoint"}
                /\ (call.args.do_train /\ Cardinality(At(w, "write")) = 3
                        /\ pc[w] # "train_setup") =>
                       /\ pc[w] = "raised"
                       /\ err[w] \in {"NotImplementedError", "ValueError"}
        /\ (pc[0] = "called" /\ call.fn = "batch_encode"
                /\ call.args.model_type \notin known) =>
               /\ ret.raised = "NotImplementedError"
               /\ ret.enc = <<>>

\* a training run with "llama" has failed in train_gabsa_model
C8_Witness ==
    /\ call.fn = "main"
    /\ call.args.model_type = "llama"
    /\ call.args.do_train
    /\ Cardinality(At(0, "write")) = 3
    /\ pc[0] = "raised"
    /\ err[0] = "NotImplementedError"

Saves == {"save_tokenizer", "save_model", "save_args"}

Repointed(w) == args[w].model_name_or_path = args[w].output_dir

\* C9: among the workers of one launch the tokenizer is saved by the primary
\* worker only, once; every worker that leaves train_gabsa_model has saved
\* the model and arguments.json once each; a worker saves nothing before its
\* trainer.train() has returned, and repoints its checkpoint path only after
\* its saves.
C9_TokenizerSavedOnce ==
    /\ \A w \in DOMAIN pc :
        /\ At(w, "save_tokenizer") # {} => w = 0
        /\ \A op \in Saves : Cardinality(At(w, op)) <= 1
        /\ \A i \in DOMAIN log[w] :
               log[w][i].op \in Saves => \E t \in At(w, "train") : t < i
        /\ Repointed(w) =>
               /\ At(w, "save_model") # {}
               /\ At(w, "save_args") # {}
               /\ w = 0 => At(w, "save_tokenizer") # {}
        /\ pc[w] \in {"predict_load", "returned"} => Repointed(w)
    /\ (\A w \in DOMAIN pc : pc[w] \in {"predict_load", "returned"}) =>
           Cardinality({w \in DOMAIN pc : At(w, "save_tokenizer") # {}}) = 1

\* every worker has left train_gabsa_model, a worker other than the primary
\* having saved the model but not the tokenizer
C9_Witness ==
    /\ \A w \in DOMAIN pc : pc[w] \in {"predict_load", "returned"}
    /\ \E w \in DOMAIN pc :
           w # 0 /\ At(w, "save_model") # {} /\ At(w, "save_tokenizer") = {}
    /\ At(0, "save_tokenizer") # {}

\* the token sequences a run has passed to model.generate, in order
Generated(w) == [i \in DOMAIN SelectSeq(log[w], LAMBDA e : e.op = "generate") |->
                    SelectSeq(log[w], LAMBDA e : e.op = "generate")[i].info]

\* C10: two runs that differ in the gold targets of the test split only pass
\* the same token sequences to model.generate.
C10_GenerateIgnoresGold ==
    (pc[0] = "predict_write" /\ pc[1] = "predict_write") => Generated(0) = Generated(1)

====
